---- MODULE Spec2Model ----
(***************************************************************************)
(* A model of the PyNGL build script setup.py.  The script is a straight-  *)
(* line program: it checks for NumPy and NCARG_ROOT, reads the optional    *)
(* environment variables, writes the version file, assembles the library, *)
(* library-path and include-path lists, sets CFLAGS, collects the data     *)
(* files and calls distutils' setup().  Each section of the script is one  *)
(* action; pc is the position in the script.                               *)
(*                                                                         *)
(* Strings that the script takes apart or glues together (paths, file      *)
(* names, version strings, file contents) are sequences of tokens, "/"     *)
(* being a token of its own in a path, so that os.path.join, slicing,      *)
(* split() and strip() are computed, not assumed.                          *)
(***************************************************************************)
EXTENDS Integers, Sequences, FiniteSets, TLC

(* ------------------------------ bounds -------------------------------- *)

\* Depth of the directories nested under database/rangs in the NCARG tree.
MaxNest == 1

\* Number of build-information characters that follow the version number in
\* the interpreter's version string.
MaxVerTail == 2

(* --------------------------- string helpers --------------------------- *)

Max(a, b) == IF a >= b THEN a ELSE b
Min(a, b) == IF a <= b THEN a ELSE b

\* os.path.join(a, b) of posixpath.
Join(a, b) ==
  IF b # <<>> /\ Head(b) = "/" THEN b
  ELSE IF a = <<>> \/ a[Len(a)] = "/" THEN a \o b
  ELSE a \o <<"/">> \o b

Join3(a, b, c) == Join(Join(a, b), c)

\* s[:n] of Python, n >= 0.
Prefix(s, n) == SubSeq(s, 1, Min(n, Len(s)))

\* s[-n:] of Python, n > 0.
Suffix(s, n) == SubSeq(s, Max(1, Len(s) - n + 1), Len(s))

\* str.strip('\n'): drop the newlines at both ends.
RECURSIVE LStripNl(_)
LStripNl(s) == IF s # <<>> /\ Head(s) = "\n" THEN LStripNl(Tail(s)) ELSE s

RECURSIVE RStripNl(_)
RStripNl(s) ==
  IF s # <<>> /\ s[Len(s)] = "\n" THEN RStripNl(SubSeq(s, 1, Len(s) - 1)) ELSE s

StripNl(s) == RStripNl(LStripNl(s))

\* str.split(): the words of s, separated by runs of blanks.
RECURSIVE SplitFrom(_, _)
SplitFrom(s, word) ==
  IF s = <<>> THEN (IF word = <<>> THEN <<>> ELSE <<word>>)
  ELSE IF Head(s) = " "
       THEN (IF word = <<>> THEN <<>> ELSE <<word>>) \o SplitFrom(Tail(s), <<>>)
       ELSE SplitFrom(Tail(s), Append(word, Head(s)))

Split(s) == SplitFrom(s, <<>>)

Range(s) == {s[i] : i \in 1..Len(s)}

(* ------------------------- names and literals ------------------------- *)

PYNGL_NCARG_DIR == <<"src", "/", "ngl", "/", "ncarg">>
pyngl_vfile     == <<"src", "/", "ngl", "/", "version.py">>
pynglex_dir     == <<"examples">>
MANIFEST        == <<"MANIFEST">>
VersionInput    == <<"version">>
SysResFile      == <<"data", "/", "sysresfile">>
ncarg_dirs      == << <<"colormaps">>, <<"data">>, <<"database">>,
                      <<"fontcaps">>, <<"graphcaps">> >>
RangsDir        == <<"database", "/", "rangs">>

X11R6Lib   == <<"/", "usr", "/", "X11R6", "/", "lib">>
OptX11Lib  == <<"/", "opt", "/", "X11", "/", "lib">>
X11R6Lib64 == <<"/", "usr", "/", "X11R6", "/", "lib64">>

\* The directory the script is started in.
WorkDir == <<"/", "w">>

NumpyMessage     == <<"Error: Cannot import ", "NumPy", ". Can't continue.">>
NcargRootMessage == <<"NCARG_ROOT", " is not set; can't continue!">>

EnvVars == {"NCARG_ROOT", "NCARG_LIB", "F2CLIBS", "F2CLIBS_PREFIX",
            "NCLLIBS_PREFIX", "EXTRA_OBJECTS", "CAIRO_PREFIX",
            "FREETYPE_PREFIX", "PNG_PREFIX", "ZLIB_PREFIX", "CFLAGS"}

\* The candidate value of each environment variable.
EnvValue ==
  [v \in EnvVars |->
     CASE v = "NCARG_ROOT"      -> <<"/", "opt", "/", "ncarg">>
       [] v = "NCARG_LIB"       -> <<"/", "opt", "/", "ncl", "/", "lib64">>
       [] v = "F2CLIBS"         -> <<"g", "f", " ", " ", "f", "9">>
       [] v = "F2CLIBS_PREFIX"  -> <<"/", "sw", "/", "lib">>
       [] v = "NCLLIBS_PREFIX"  -> <<"/", "ncl", "/", "lib">>
       [] v = "EXTRA_OBJECTS"   -> <<"x.o">>
       [] v = "CAIRO_PREFIX"    -> <<"/", "cairo">>
       [] v = "FREETYPE_PREFIX" -> <<"/", "ft">>
       [] v = "PNG_PREFIX"      -> <<"/", "png">>
       [] v = "ZLIB_PREFIX"     -> <<"/", "zlib">>
       [] v = "CFLAGS"          -> <<"-g">>]

\* A second value of each variable: a root with a trailing slash, prefixes
\* that are empty, relative or equal to one another, blank library names.
AltValue ==
  [v \in EnvVars |->
     CASE v = "NCARG_ROOT"      -> <<"/", "opt", "/", "ncarg", "/">>
       [] v = "NCARG_LIB"       -> <<"lib">>
       [] v = "F2CLIBS"         -> <<" ">>
       [] v = "F2CLIBS_PREFIX"  -> <<>>
       [] v = "NCLLIBS_PREFIX"  -> <<>>
       [] v = "EXTRA_OBJECTS"   -> <<>>
       [] v = "CAIRO_PREFIX"    -> <<>>
       [] v = "FREETYPE_PREFIX" -> <<"/", "png">>
       [] v = "PNG_PREFIX"      -> <<"/", "png">>
       [] v = "ZLIB_PREFIX"     -> <<"/", "png", "/">>
       [] v = "CFLAGS"          -> <<>>]

EnvOf(value, S) == [v \in S |-> value[v]]

AllEnvs == {EnvOf(EnvValue, S) : S \in SUBSET EnvVars}
AltEnvs == {EnvOf(AltValue, S) : S \in SUBSET EnvVars}

\* A few environments, for the specifications that vary something else.
FewEnvs ==
  {EnvOf(EnvValue, EnvVars), EnvOf(AltValue, EnvVars),
   EnvOf(EnvValue, {"NCARG_ROOT", "CFLAGS"}),
   EnvOf(EnvValue, {"NCARG_ROOT", "NCARG_LIB", "PNG_PREFIX", "F2CLIBS"}),
   EnvOf(EnvValue, {"CFLAGS"})}

\* os.uname(): the fields the script reads, [2] (release) and [-1] (machine).
Unames ==
  {[machine |-> "x86_64", release |-> "3.2.0"],
   [machine |-> "ia64", release |-> "3.2.0"],
   [machine |-> "i686", release |-> "3.2.0"],
   [machine |-> "Power Macintosh", release |-> "7.9.0"],
   [machine |-> "Power Macintosh", release |-> "8.0.0"]}

\* sys.platform.
Platforms == {"linux2", "aix5", "sunos5", "darwin"}

\* The version number the interpreter's version string starts with, and the
\* build information that follows it.
VerNumbers == {<<"2", ".", "7", ".", "3">>, <<"3", ".", "1", "0", ".", "4">>}
VerTail    == <<" ", "(", "d", "e", "f", "a", "u", "l", "t", ")">>
SysVersions ==
  {n \o Prefix(VerTail, k) : n \in VerNumbers, k \in 1..MaxVerTail}

NumpyVersions == {<<"1", ".", "6">>, <<"1", ".", "6", "'", "x">>}

\* Contents of the file 'version', as readlines() returns them.
VersionFiles ==
  {<<>>,
   << <<"1", ".", "5", "\n">> >>,
   << <<"1", ".", "5">> >>,
   << <<"\n">>, <<"1", ".", "5", "\n">> >>,
   << <<"1", "\\", "'", "\n">>, <<"x", "\n">> >>}

NumpyIncludes ==
  {<<"/", "np", "/", "include">>, <<"/", "np2", "/", "include">>}

\* The NCARG tree below <ncarg_lib>/ncarg: files as <<directory, name>>.
RECURSIVE RangsNest(_)
RangsNest(k) == IF k = 0 THEN RangsDir ELSE RangsNest(k - 1) \o <<"/", "n">>

TreeFiles ==
  { << <<"colormaps">>, <<"c.rgb">> >>, << <<"database">>, <<"db">> >> }
  \cup { <<RangsNest(k), <<"r">>>> : k \in 0..MaxNest }

Trees == {[exists |-> FALSE, files |-> {}]}
         \cup {[exists |-> TRUE, files |-> F] : F \in SUBSET TreeFiles}

\* os.listdir('examples'): the names, in the order the system returns them.
ExampleDirs ==
  {[exists |-> FALSE, names |-> <<>>],
   [exists |-> TRUE, names |-> <<>>],
   [exists |-> TRUE,
    names |-> << <<"a", ".", "p", "y">>, <<"p", "y">>, <<"b", ".", "r", "e", "s">> >>],
   [exists |-> TRUE,
    names |-> << <<"n", "g", "l", ".", "r", "e", "s">>, <<"a", ".", "p", "y", "c">>,
                 <<".", "p", "y">> >>]}

InWork(p) == Join(WorkDir, p)

\* Directories and files that may or may not exist when the script starts.
OptionalFiles == {InWork(MANIFEST), InWork(pyngl_vfile), InWork(SysResFile),
                  InWork(VersionInput), InWork(PYNGL_NCARG_DIR),
                  InWork(Join(PYNGL_NCARG_DIR, <<"database">>))}
XDirs == {X11R6Lib, OptX11Lib, X11R6Lib64, <<"/", "usr", "/", "lib64">>}

\* The project directory as checked out, and a system with /usr/X11R6/lib.
ProjectFs == {InWork(MANIFEST), InWork(SysResFile), InWork(VersionInput)}
DefaultFs == ProjectFs \cup {X11R6Lib}

(* ------------------------------- state -------------------------------- *)

VARIABLES
  \* the host the script runs on
  numpy_ok,        \* whether "import numpy" succeeds
  numpy_inc,       \* numpy.get_include()
  numpy_version,   \* numpy.__version__
  sys_version,     \* sys.version
  uname,           \* os.uname()
  platform,        \* sys.platform
  version_lines,   \* the lines of the file 'version'
  examples,        \* the directory 'examples'
  tree,            \* the NCARG tree below <ncarg_lib>/ncarg
  cp_fail,         \* the source paths whose "cp" command fails
  environ,         \* os.environ
  fs,              \* the paths that exist (absolute)
  \* the process
  pc, printed, exit_status, error,
  effects,         \* the file-system and build operations performed, in order
  staged,          \* the files that "cp" has written
  \* the script's globals
  ncarg_root, ncarg_lib, F2CLIBS, F2CLIBS_PREFIX, NCLLIBS_PREFIX, EXTRA_OBJECTS,
  pyngl_version, vfile, LIBRARIES, LIB_DIRS, INC_DIRS, DATA_FILES

host    == <<numpy_ok, numpy_inc, numpy_version, sys_version, uname, platform,
             version_lines, examples, tree, cp_fail>>
process == <<pc, printed, exit_status, error>>
globals == <<ncarg_root, ncarg_lib, F2CLIBS, F2CLIBS_PREFIX, NCLLIBS_PREFIX,
             EXTRA_OBJECTS, pyngl_version, vfile, LIBRARIES, LIB_DIRS,
             INC_DIRS, DATA_FILES>>
vars    == <<host, environ, fs, process, effects, staged, globals>>

\* os.path.exists(p), the working directory being WorkDir.
Exists(files, p) == InWork(p) \in files

\* The state of the process and of the script's globals when it starts.
Start ==
  /\ pc = "import_numpy"
  /\ printed = <<>>
  /\ exit_status = -1
  /\ error = <<>>
  /\ effects = <<>>
  /\ staged = {}
  /\ ncarg_root = <<>>
  /\ ncarg_lib = <<>>
  /\ F2CLIBS = <<>>
  /\ F2CLIBS_PREFIX = <<>>
  /\ NCLLIBS_PREFIX = <<>>
  /\ EXTRA_OBJECTS = <<>>
  /\ pyngl_version = <<>>
  /\ vfile = <<>>
  /\ LIBRARIES = <<>>
  /\ LIB_DIRS = <<>>
  /\ INC_DIRS = <<>>
  /\ DATA_FILES = <<>>

DefaultTree == [exists |-> TRUE, files |-> TreeFiles]
DefaultExamples ==
  [exists |-> TRUE,
   names |-> << <<"a", ".", "p", "y">>, <<"p", "y">>, <<"b", ".", "r", "e", "s">> >>]
DefaultUname == [machine |-> "x86_64", release |-> "3.2.0"]
DefaultVersionLines == << <<"1", ".", "5", "\n">> >>
DefaultSysVersion == <<"2", ".", "7", ".", "3", " ", "(">>

\* A file system in which a staging directory exists only below its parent.
WellFormedFs(files) ==
  InWork(Join(PYNGL_NCARG_DIR, <<"database">>)) \in files
     => InWork(PYNGL_NCARG_DIR) \in files

\* Every environment, one file system: the environment lookups.
Init ==
  /\ environ \in AllEnvs \cup AltEnvs
  /\ numpy_ok \in BOOLEAN
  /\ uname \in Unames
  /\ platform = "linux2"
  /\ fs = DefaultFs
  /\ numpy_inc \in {<<"/", "np", "/", "include">>}
  /\ numpy_version = <<"1", ".", "6">>
  /\ sys_version = DefaultSysVersion
  /\ version_lines = DefaultVersionLines
  /\ examples = DefaultExamples
  /\ tree = DefaultTree
  /\ cp_fail = {}
  /\ Start

\* Every platform and set of system directories, a few environments.
InitPlat ==
  /\ environ \in FewEnvs
  /\ numpy_ok \in BOOLEAN
  /\ uname \in Unames
  /\ platform \in Platforms
  /\ fs \in {ProjectFs \cup X : X \in SUBSET XDirs}
  /\ numpy_inc \in NumpyIncludes
  /\ numpy_version = <<"1", ".", "6">>
  /\ sys_version = DefaultSysVersion
  /\ version_lines = DefaultVersionLines
  /\ examples = DefaultExamples
  /\ tree = DefaultTree
  /\ cp_fail = {}
  /\ Start

\* Every NCARG tree and project directory, a few environments.
InitFiles ==
  /\ environ \in FewEnvs
  /\ numpy_ok \in BOOLEAN
  /\ uname = DefaultUname
  /\ platform = "linux2"
  /\ fs \in {F \in SUBSET OptionalFiles : WellFormedFs(F)}
  /\ numpy_inc \in {<<"/", "np", "/", "include">>}
  /\ numpy_version = <<"1", ".", "6">>
  /\ sys_version = DefaultSysVersion
  /\ version_lines \in {<<>>, DefaultVersionLines}
  /\ examples \in ExampleDirs
  /\ tree \in Trees
  /\ cp_fail \in {{}, {SysResFile}}
  /\ Start

\* Every version string, a few environments.
InitVersion ==
  /\ environ \in FewEnvs
  /\ numpy_ok \in BOOLEAN
  /\ uname \in Unames
  /\ platform = "linux2"
  /\ fs \in {DefaultFs, DefaultFs \cup {InWork(pyngl_vfile)}}
  /\ numpy_inc \in {<<"/", "np", "/", "include">>}
  /\ numpy_version \in NumpyVersions
  /\ sys_version \in SysVersions
  /\ version_lines \in VersionFiles
  /\ examples = DefaultExamples
  /\ tree = DefaultTree
  /\ cp_fail = {}
  /\ Start

(* ------------------------ leaving the process ------------------------- *)

\* sys.exit(1) after a printed diagnostic.
Exit(message) ==
  /\ printed' = Append(printed, message)
  /\ exit_status' = 1
  /\ pc' = "exited"
  /\ UNCHANGED error

\* An exception nothing catches: the interpreter prints the traceback and
\* ends with status 1.
Raise(exception) ==
  /\ error' = exception
  /\ exit_status' = 1
  /\ pc' = "crashed"
  /\ UNCHANGED printed

Goto(label) ==
  /\ pc' = label
  /\ UNCHANGED <<printed, exit_status, error>>

(* ---------------------- environment (lines 50-92) --------------------- *)

\* ImportNumpy without the sys.exit(1): the diagnostic is printed and the
\* script goes on.
ImportNumpy_NoExit ==
  /\ pc = "import_numpy"
  /\ printed' = IF numpy_ok THEN printed ELSE Append(printed, NumpyMessage)
  /\ pc' = "ncarg_root"
  /\ UNCHANGED <<exit_status, error>>
  /\ UNCHANGED <<host, environ, fs, effects, staged, globals>>

\* try: import numpy / except ImportError: print, sys.exit(1)
ImportNumpy ==
  /\ pc = "import_numpy"
  /\ IF numpy_ok THEN Goto("ncarg_root") ELSE Exit(NumpyMessage)
  /\ UNCHANGED <<host, environ, fs, effects, staged, globals>>

\* GetNcargRoot with a default in place of the exit, as the other lookups
\* have.
GetNcargRoot_Default ==
  /\ pc = "ncarg_root"
  /\ ncarg_root' = IF "NCARG_ROOT" \in DOMAIN environ
                   THEN environ["NCARG_ROOT"]
                   ELSE <<"/", "usr", "/", "local">>
  /\ Goto("optional_env")
  /\ UNCHANGED <<host, environ, fs, effects, staged, ncarg_lib, F2CLIBS,
                 F2CLIBS_PREFIX, NCLLIBS_PREFIX, EXTRA_OBJECTS, pyngl_version,
                 vfile, LIBRARIES, LIB_DIRS, INC_DIRS, DATA_FILES>>

\* try: ncarg_root = os.environ["NCARG_ROOT"] / except: print, sys.exit(1)
GetNcargRoot ==
  /\ pc = "ncarg_root"
  /\ IF "NCARG_ROOT" \in DOMAIN environ
     THEN /\ ncarg_root' = environ["NCARG_ROOT"]
          /\ Goto("optional_env")
     ELSE /\ Exit(NcargRootMessage)
          /\ UNCHANGED ncarg_root
  /\ UNCHANGED <<host, environ, fs, effects, staged, ncarg_lib, F2CLIBS,
                 F2CLIBS_PREFIX, NCLLIBS_PREFIX, EXTRA_OBJECTS, pyngl_version,
                 vfile, LIBRARIES, LIB_DIRS, INC_DIRS, DATA_FILES>>

\* NcargLib with the default directory lib64.
NcargLib_Lib64(env, root) ==
  IF "NCARG_LIB" \in DOMAIN env THEN env["NCARG_LIB"] ELSE Join(root, <<"lib64">>)

\* ncarg_lib: os.environ["NCARG_LIB"], or os.path.join(ncarg_root, 'lib').
NcargLib(env, root) ==
  IF "NCARG_LIB" \in DOMAIN env THEN env["NCARG_LIB"] ELSE Join(root, <<"lib">>)

\* os.environ[name], or "" when the lookup raises.
EnvOrEmpty(env, name) == IF name \in DOMAIN env THEN env[name] ELSE <<>>

\* F2CLIBS: os.environ["F2CLIBS"].split(), or "".  The empty string and the
\* empty list are both the empty sequence: the script only tests the value
\* against "" and then iterates over it, and both add nothing.
F2cLibs(env) == IF "F2CLIBS" \in DOMAIN env THEN Split(env["F2CLIBS"]) ELSE <<>>

\* EXTRA_OBJECTS: [os.environ["EXTRA_OBJECTS"]], or "".
ExtraObjects(env) ==
  IF "EXTRA_OBJECTS" \in DOMAIN env THEN <<env["EXTRA_OBJECTS"]>> ELSE <<>>

ReadOptionalEnv ==
  /\ pc = "optional_env"
  /\ ncarg_lib' = NcargLib(environ, ncarg_root)
  /\ F2CLIBS' = F2cLibs(environ)
  /\ F2CLIBS_PREFIX' = EnvOrEmpty(environ, "F2CLIBS_PREFIX")
  /\ NCLLIBS_PREFIX' = EnvOrEmpty(environ, "NCLLIBS_PREFIX")
  /\ EXTRA_OBJECTS' = ExtraObjects(environ)
  /\ Goto("manifest")
  /\ UNCHANGED <<host, environ, fs, effects, staged, ncarg_root, pyngl_version,
                 vfile, LIBRARIES, LIB_DIRS, INC_DIRS, DATA_FILES>>

(* ------------------- MANIFEST and the version file -------------------- *)

\* if os.path.exists('MANIFEST'): os.remove('MANIFEST')
RemoveManifest ==
  /\ pc = "manifest"
  /\ IF Exists(fs, MANIFEST)
     THEN /\ fs' = fs \ {InWork(MANIFEST)}
          /\ effects' = Append(effects, <<"remove", MANIFEST>>)
     ELSE UNCHANGED <<fs, effects>>
  /\ Goto("version")
  /\ UNCHANGED <<host, environ, staged, globals>>

\* What create_version_file writes.
VersionFileText(version, array_version, python_full_version) ==
  <<"version = ", "'">> \o version \o <<"'", "\n">>
  \o <<"array_module = ", "'", "n", "u", "m", "p", "y", "'", "\n">>
  \o <<"array_module_version = ", "'">> \o array_version \o <<"'", "\n">>
  \o <<"python_version = ", "'">> \o Prefix(python_full_version, 5)
  \o <<"'", "\n">>

\* pyngl_version = open('version','r').readlines()[0].strip('\n')
\* create_version_file()
ConstructVersionFile ==
  /\ pc = "version"
  /\ IF ~Exists(fs, VersionInput)
     THEN /\ Raise(<<"IOError", "version">>)
          /\ UNCHANGED <<fs, effects, pyngl_version, vfile>>
     ELSE IF version_lines = <<>>
     THEN /\ Raise(<<"IndexError", "version">>)
          /\ UNCHANGED <<fs, effects, pyngl_version, vfile>>
     ELSE /\ pyngl_version' = StripNl(version_lines[1])
          /\ vfile' = VersionFileText(pyngl_version', numpy_version, sys_version)
          /\ fs' = fs \cup {InWork(pyngl_vfile)}
          /\ effects' = effects
               \o (IF Exists(fs, pyngl_vfile)
                   THEN << <<"remove", pyngl_vfile>> >> ELSE <<>>)
               \o << <<"write", pyngl_vfile>> >>
          /\ Goto("libs")
  /\ UNCHANGED <<host, environ, staged, ncarg_root, ncarg_lib, F2CLIBS,
                 F2CLIBS_PREFIX, NCLLIBS_PREFIX, EXTRA_OBJECTS, LIBRARIES,
                 LIB_DIRS, INC_DIRS, DATA_FILES>>

(* ------------- library and include lists (lines 188-296) -------------- *)

\* if os.path.exists(xdir): PATHS.append(xdir)
IfExists(files, xdir) == IF xdir \in files THEN <<xdir>> ELSE <<>>

\* Lib64Paths adding /usr/lib64 as well.
Lib64Paths_AnyLib64(files, un) ==
  IF un.machine = "x86_64" \/ un.machine = "ia64"
  THEN IfExists(files, X11R6Lib64) \o IfExists(files, <<"/", "usr", "/", "lib64">>)
  ELSE <<>>

\* Lib64Paths probing /usr/lib64 and adding /usr/X11R6/lib64.
Lib64Paths_WrongProbe(files, un) ==
  IF (un.machine = "x86_64" \/ un.machine = "ia64")
     /\ <<"/", "usr", "/", "lib64">> \in files
  THEN <<X11R6Lib64>> ELSE <<>>

\* The entry added for a 64-bit machine, when the directory exists.
Lib64Paths(files, un) ==
  IF un.machine = "x86_64" \/ un.machine = "ia64"
  THEN IfExists(files, X11R6Lib64) ELSE <<>>

\* Extra libraries for C/Fortran interfacing, by sys.platform.
PlatformLibs(plat) ==
  CASE plat = "aix5"   -> << <<"xlf90">> >>
    [] plat = "sunos5" -> << <<"f77compat">>, <<"fsu">>, <<"sunmath">> >>
    [] plat = "darwin" -> << <<"quadmath">> >>
    [] OTHER           -> <<>>

\* PrefixPath with /usr/local for a prefix that is not set.
PrefixPath_Default(env, name, sub) ==
  IF name \in DOMAIN env THEN <<Join(env[name], sub)>>
  ELSE <<Join(<<"/", "usr", "/", "local">>, sub)>>

\* try: PATHS.append(os.path.join(os.environ[name], sub)) / except: pass
PrefixPath(env, name, sub) ==
  IF name \in DOMAIN env THEN <<Join(env[name], sub)>> ELSE <<>>

\* if PREFIX != "": PATHS.append(PREFIX)
IfNonEmpty(prefix) == IF prefix # <<>> THEN <<prefix>> ELSE <<>>

\* set_ncl_libs_and_paths(): the lists LIBS and PATHS it returns.
NclLibs(plat, f2clibs) ==
  << <<"nfpfort">>, <<"hlu">>, <<"ncarg">>, <<"ncarg_gks">>, <<"ncarg_c">>,
     <<"ngmath">>, <<"X11">> >>
  \o PlatformLibs(plat)
  \o << <<"cairo">>, <<"fontconfig">>, <<"pixman-1">>, <<"freetype">>,
        <<"expat">>, <<"pthread">>, <<"Xrender">>, <<"Xext">>, <<"bz2">>,
        <<"gfortran">>, <<"png">>, <<"z">> >>
  \o f2clibs

NclPaths(env, files, un, lib, f2c_prefix, ncl_prefix) ==
  <<lib>>
  \o IfExists(files, X11R6Lib)
  \o IfExists(files, OptX11Lib)
  \o Lib64Paths(files, un)
  \o PrefixPath(env, "CAIRO_PREFIX", <<"lib">>)
  \o PrefixPath(env, "FREETYPE_PREFIX", <<"lib">>)
  \o PrefixPath(env, "PNG_PREFIX", <<"lib">>)
  \o PrefixPath(env, "ZLIB_PREFIX", <<"lib">>)
  \o IfNonEmpty(f2c_prefix)
  \o IfNonEmpty(ncl_prefix)

\* LIBRARIES,LIB_DIRS = set_ncl_libs_and_paths()
SetNclLibsAndPaths ==
  /\ pc = "libs"
  /\ LIBRARIES' = NclLibs(platform, F2CLIBS)
  /\ LIB_DIRS' = NclPaths(environ, fs, uname, ncarg_lib, F2CLIBS_PREFIX,
                          NCLLIBS_PREFIX)
  /\ Goto("incs")
  /\ UNCHANGED <<host, environ, fs, effects, staged, ncarg_root, ncarg_lib,
                 F2CLIBS, F2CLIBS_PREFIX, NCLLIBS_PREFIX, EXTRA_OBJECTS,
                 pyngl_version, vfile, INC_DIRS, DATA_FILES>>

\* The two FREETYPE_PREFIX entries: the first lookup raises before either
\* append when the variable is unset.
FreetypeIncludes(env) ==
  PrefixPath(env, "FREETYPE_PREFIX", <<"include">>)
  \o PrefixPath(env, "FREETYPE_PREFIX", <<"include", "/", "freetype2">>)

\* set_include_paths(): the list PATHS it returns.
IncludePaths(env, root, np_inc) ==
  <<np_inc, Join(root, <<"include">>)>>
  \o PrefixPath(env, "PNG_PREFIX", <<"include">>)
  \o PrefixPath(env, "ZLIB_PREFIX", <<"include">>)
  \o PrefixPath(env, "CAIRO_PREFIX", <<"include">>)
  \o FreetypeIncludes(env)
  \o << <<"src", "/", "gsun">> >>

\* INC_DIRS = set_include_paths()
SetIncludePaths ==
  /\ pc = "incs"
  /\ INC_DIRS' = IncludePaths(environ, ncarg_root, numpy_inc)
  /\ Goto("cflags")
  /\ UNCHANGED <<host, environ, fs, effects, staged, ncarg_root, ncarg_lib,
                 F2CLIBS, F2CLIBS_PREFIX, NCLLIBS_PREFIX, EXTRA_OBJECTS,
                 pyngl_version, vfile, LIBRARIES, LIB_DIRS, DATA_FILES>>

(* ------------------- compile options (lines 325-330) ------------------ *)

\* The condition under which the script sets CFLAGS to "-O2".
SetsCflags(un) ==
  \/ un.machine = "x86_64"
  \/ (un.machine = "Power Macintosh" /\ un.release = "7.9.0")

\* os.environ after 'if ...: os.environ["CFLAGS"] = "-O2"'.
WithO2(env, un) ==
  IF SetsCflags(un)
  THEN [v \in DOMAIN env \cup {"CFLAGS"} |->
          IF v = "CFLAGS" THEN <<"-O2">> ELSE env[v]]
  ELSE env

\* os.environ["CFLAGS"] += " -fopenmp ": the lookup raises KeyError when
\* CFLAGS is not in the environment.
SetCompileOptions ==
  /\ pc = "cflags"
  /\ LET env == WithO2(environ, uname) IN
       IF "CFLAGS" \in DOMAIN env
       THEN /\ environ' = [env EXCEPT !["CFLAGS"] = @ \o <<" -fopenmp ">>]
            /\ Goto("pynglex")
       ELSE /\ environ' = env
            /\ Raise(<<"KeyError", "CFLAGS">>)
  /\ UNCHANGED <<host, fs, effects, staged, globals>>

(* ------------------- data files (lines 133-185) ----------------------- *)

\* The names at the ends of the directories of a path.
Ancestors(d) == {SubSeq(d, 1, k) : k \in {j \in 1..Len(d) : d[j] # "/"}}

\* d is top or lies below it.
IsUnder(top, d) ==
  /\ Len(d) >= Len(top)
  /\ SubSeq(d, 1, Len(top)) = top
  /\ (Len(d) = Len(top) \/ d[Len(top) + 1] = "/")

TreeDirs(t) == UNION {Ancestors(f[1]) : f \in t.files}

RECURSIVE SetToSeq(_)
SetToSeq(S) ==
  IF S = {} THEN <<>>
  ELSE LET x == CHOOSE y \in S : TRUE IN <<x>> \o SetToSeq(S \ {x})

\* The directories in the order os.walk visits them: a directory before the
\* directories below it.
RECURSIVE TopDown(_)
TopDown(ds) ==
  IF ds = {} THEN <<>>
  ELSE LET d == CHOOSE x \in ds : \A y \in ds : Len(x) <= Len(y)
       IN <<d>> \o TopDown(ds \ {d})

\* The roots that os.walk(top) yields in tree t; nothing when top is absent.
Walk(t, top) == TopDown({d \in TreeDirs(t) : IsUnder(top, d)})

\* The names os.walk reports as the files of root.
FilesIn(t, root) == SetToSeq({f[2] : f \in {g \in t.files : g[1] = root}})

\* Where the NCARG tree is: ncl_ncarg_dir, resolved in the working directory.
NclNcargDir(lib) == Join(lib, <<"ncarg">>)
TreeBase(lib) == InWork(NclNcargDir(lib))

\* The regular files on disk, apart from the paths of fs.
ExampleFiles == {InWork(Join(pynglex_dir, examples.names[i])) :
                   i \in 1..Len(examples.names)}
TreeFilesOnDisk(lib) == {Join3(TreeBase(lib), f[1], f[2]) : f \in tree.files}

\* os.system("cp " + src + " " + dstdir), run in directory cwd; the exit
\* status is ignored.  acc is [fs, effects, staged, data].
Cp(acc, cwd, src, dstdir, name, lib) ==
  LET ok == /\ Join(cwd, src) \in
                 (acc.fs \cup ExampleFiles \cup TreeFilesOnDisk(lib))
            /\ src \notin cp_fail
            /\ Join(cwd, dstdir) \in acc.fs
  IN [acc EXCEPT !.effects = Append(@, <<"cp", src, dstdir>>),
                 !.staged = IF ok THEN @ \cup {Join3(cwd, dstdir, name)} ELSE @]

\* if not os.path.exists(d): os.mkdir(d)
MkdirIfMissing(acc, d) ==
  IF InWork(d) \in acc.fs THEN acc
  ELSE [acc EXCEPT !.fs = @ \cup {InWork(d)},
                   !.effects = Append(@, <<"mkdir", d>>)]

AddData(acc, entry) == [acc EXCEPT !.data = Append(@, entry)]

\* file[-3:] == ".py" or file[-4:] == ".res"
IsExample(file) ==
  \/ Suffix(file, 3) = <<".", "p", "y">>
  \/ Suffix(file, 4) = <<".", "r", "e", "s">>

PynglexDir == Join(PYNGL_NCARG_DIR, <<"pynglex">>)

\* The loop of get_pynglex_files over the listed names.
RECURSIVE CopyExamples(_, _, _)
CopyExamples(acc, names, lib) ==
  IF names = <<>> THEN acc
  ELSE LET file == Head(names)
           next == IF IsExample(file)
                   THEN AddData(Cp(acc, WorkDir, Join(pynglex_dir, file),
                                   PynglexDir, file, lib),
                                Join(PynglexDir, file))
                   ELSE acc
       IN CopyExamples(next, Tail(names), lib)

Acc == [fs |-> fs, effects |-> effects, staged |-> staged, data |-> DATA_FILES]

Commit(acc) ==
  /\ fs' = acc.fs
  /\ effects' = acc.effects
  /\ staged' = acc.staged
  /\ DATA_FILES' = acc.data

\* get_pynglex_files()
GetPynglexFiles ==
  /\ pc = "pynglex"
  /\ IF ~examples.exists
     THEN /\ Raise(<<"OSError", "examples">>)
          /\ UNCHANGED <<fs, effects, staged, DATA_FILES>>
     ELSE /\ Commit(CopyExamples(
                      MkdirIfMissing(MkdirIfMissing(Acc, PYNGL_NCARG_DIR),
                                     PynglexDir),
                      examples.names, ncarg_lib))
          /\ Goto("ncarg_files")
  /\ UNCHANGED <<host, environ, ncarg_root, ncarg_lib, F2CLIBS, F2CLIBS_PREFIX,
                 NCLLIBS_PREFIX, EXTRA_OBJECTS, pyngl_version, vfile, LIBRARIES,
                 LIB_DIRS, INC_DIRS>>

\* if root != "database/rangs"
IsCopied(root) == root # RangsDir

\* The loop over the files of one root.
RECURSIVE CopyNames(_, _, _, _)
CopyNames(acc, root, names, lib) ==
  IF names = <<>> THEN acc
  ELSE LET name == Head(names)
           next == IF IsCopied(root)
                   THEN AddData(Cp(acc, TreeBase(lib),
                                   Join3(NclNcargDir(lib), root, name),
                                   Join3(WorkDir, PYNGL_NCARG_DIR, root),
                                   name, lib),
                                Join3(<<"ncarg">>, root, name))
                   ELSE acc
       IN CopyNames(next, root, Tail(names), lib)

\* The loop over the roots of one walk.
RECURSIVE CopyRoots(_, _, _)
CopyRoots(acc, roots, lib) ==
  IF roots = <<>> THEN acc
  ELSE LET root == Head(roots)
           made == MkdirIfMissing(acc, Join3(WorkDir, PYNGL_NCARG_DIR, root))
       IN CopyRoots(CopyNames(made, root, FilesIn(tree, root), lib),
                    Tail(roots), lib)

\* for ncarg_dir in ncarg_dirs: for root, dirs, files in os.walk(ncarg_dir)
RECURSIVE CopyNcargDirs(_, _, _)
CopyNcargDirs(acc, tops, lib) ==
  IF tops = <<>> THEN acc
  ELSE CopyNcargDirs(CopyRoots(acc, Walk(tree, Head(tops)), lib),
                     Tail(tops), lib)

Log(acc, event) == [acc EXCEPT !.effects = Append(@, event)]

\* get_ncarg_files()
GetNcargFiles ==
  /\ pc = "ncarg_files"
  /\ LET made == MkdirIfMissing(Acc, PYNGL_NCARG_DIR) IN
       IF ~tree.exists
       THEN /\ Raise(<<"OSError", "chdir">>)
            /\ Commit(made)
       ELSE /\ Commit(
                 AddData(
                   Cp(Log(CopyNcargDirs(
                            Log(made, <<"chdir", NclNcargDir(ncarg_lib)>>),
                            ncarg_dirs, ncarg_lib),
                          <<"chdir", WorkDir>>),
                      WorkDir, SysResFile, PYNGL_NCARG_DIR, <<"sysresfile">>,
                      ncarg_lib),
                   Join(<<"ncarg">>, <<"sysresfile">>)))
            /\ Goto("setup")
  /\ UNCHANGED <<host, environ, ncarg_root, ncarg_lib, F2CLIBS, F2CLIBS_PREFIX,
                 NCLLIBS_PREFIX, EXTRA_OBJECTS, pyngl_version, vfile, LIBRARIES,
                 LIB_DIRS, INC_DIRS>>

(* ----------------------------- the build ------------------------------ *)

\* setup(...): the build is handed the lists.
Setup ==
  /\ pc = "setup"
  /\ effects' = Append(effects, <<"setup">>)
  /\ exit_status' = 0
  /\ pc' = "done"
  /\ UNCHANGED <<host, environ, fs, printed, error, staged, globals>>

Next ==
  \/ ImportNumpy
  \/ GetNcargRoot
  \/ ReadOptionalEnv
  \/ RemoveManifest
  \/ ConstructVersionFile
  \/ SetNclLibsAndPaths
  \/ SetIncludePaths
  \/ SetCompileOptions
  \/ GetPynglexFiles
  \/ GetNcargFiles
  \/ Setup

Spec        == Init /\ [][Next]_vars
SpecPlat    == InitPlat /\ [][Next]_vars
SpecFiles   == InitFiles /\ [][Next]_vars
SpecVersion == InitVersion /\ [][Next]_vars

(* ============================ properties ============================== *)

Terminated == pc \in {"exited", "crashed", "done"}

RootSet == "NCARG_ROOT" \in DOMAIN environ

\* Some printed line names the word.
Names(word) == \E i \in 1..Len(printed) : word \in Range(printed[i])

\* The path of entry n in directory d, written out.
Under(d, n) ==
  IF d = <<>> \/ d[Len(d)] = "/" THEN d \o n ELSE d \o <<"/">> \o n

Count(s, x) == Cardinality({i \in 1..Len(s) : s[i] = x})

RemoveAt(s, i) == SubSeq(s, 1, i - 1) \o SubSeq(s, i + 1, Len(s))

(* ------------------------------- C1 ----------------------------------- *)

\* C1 as stated: whenever NCARG_ROOT is missing from the environment, the
\* run ends with status 1 and a printed diagnostic that names NCARG_ROOT.
C1_DiagnosticNamesRoot ==
  (Terminated /\ ~RootSet) => (exit_status = 1 /\ Names("NCARG_ROOT"))

\* C1, amended: a run without NCARG_ROOT never gets past the NCARG_ROOT
\* lookup and ends with status 1; the diagnostic names NCARG_ROOT when NumPy
\* is importable, and is the NumPy diagnostic, which does not name it,
\* when NumPy is not importable.
C1_MissingRootExits ==
  ~RootSet =>
    /\ pc \in {"import_numpy", "ncarg_root", "exited"}
    /\ Terminated =>
         /\ exit_status = 1
         /\ numpy_ok => (printed = <<NcargRootMessage>> /\ Names("NCARG_ROOT"))
         /\ ~numpy_ok => (Names("NumPy") /\ ~Names("NCARG_ROOT"))

C1_Witness ==
  /\ pc = "exited"
  /\ numpy_ok
  /\ ~RootSet
  /\ {"NCARG_LIB", "CFLAGS", "PNG_PREFIX"} \subseteq DOMAIN environ
  /\ Names("NCARG_ROOT")

(* ------------------------------- C2 ----------------------------------- *)

\* C2: no entry of DATA_FILES lies under database/rangs, whatever the
\* NCARG tree, directories nested below database/rangs included.
C2_NoEntryUnderRangs ==
  \A i \in 1..Len(DATA_FILES) :
    ~IsUnder(<<"ncarg", "/">> \o RangsDir, DATA_FILES[i])

(* ------------------------------- C3 ----------------------------------- *)

\* C3: with NumPy importable and NCARG_ROOT set, no run raises an error on a
\* missing environment variable, whichever other variables are unset and
\* whatever the CPU architecture.
C3_NoMissingVariableError ==
  (numpy_ok /\ RootSet) => ~(pc = "crashed" /\ error = <<"KeyError", "CFLAGS">>)

(* ------------------------------- C4 ----------------------------------- *)

\* The library names the script spells out.
KnownLibs ==
  { <<"nfpfort">>, <<"hlu">>, <<"ncarg">>, <<"ncarg_gks">>, <<"ncarg_c">>,
    <<"ngmath">>, <<"X11">>, <<"xlf90">>, <<"f77compat">>, <<"fsu">>,
    <<"sunmath">>, <<"quadmath">>, <<"cairo">>, <<"fontconfig">>,
    <<"pixman-1">>, <<"freetype">>, <<"expat">>, <<"pthread">>, <<"Xrender">>,
    <<"Xext">>, <<"bz2">>, <<"gfortran">>, <<"png">>, <<"z">> }

\* The library paths that come from somewhere else than F2CLIBS_PREFIX and
\* NCLLIBS_PREFIX.
OtherLibPaths ==
  {X11R6Lib, OptX11Lib, X11R6Lib64}
  \cup {Under(environ[v], <<"lib">>) :
          v \in DOMAIN environ \cap {"CAIRO_PREFIX", "FREETYPE_PREFIX",
                                     "PNG_PREFIX", "ZLIB_PREFIX"}}

LibPathsFor(v) == IF v \in DOMAIN environ THEN {environ[v]} ELSE {}

\* The directory changes of the data-file walk, other than the way back.
WalkRoots ==
  {effects[i][2] : i \in {j \in 1..Len(effects) :
                            effects[j][1] = "chdir" /\ effects[j][2] # WorkDir}}

\* C4: once the library lists are assembled, the library directory (first
\* library path, and with /ncarg appended the root of the data-file walk) is
\* the directory lib of NCARG_ROOT when NCARG_LIB is unset and the value of
\* NCARG_LIB when it is set; with F2CLIBS unset every library name is one the
\* script spells out, and no library path comes from an unset F2CLIBS_PREFIX
\* or NCLLIBS_PREFIX.
C4_DefaultsExact ==
  LIB_DIRS # <<>> =>
    LET libdir == IF "NCARG_LIB" \in DOMAIN environ
                  THEN environ["NCARG_LIB"]
                  ELSE Under(environ["NCARG_ROOT"], <<"lib">>)
    IN /\ LIB_DIRS[1] = libdir
       /\ ncarg_lib = libdir
       /\ WalkRoots \subseteq {Under(libdir, <<"ncarg">>)}
       /\ pc \in {"setup", "done"} => WalkRoots # {}
       /\ "F2CLIBS" \notin DOMAIN environ =>
            /\ Range(LIBRARIES) \subseteq KnownLibs
            /\ \A n \in Range(LIBRARIES) : Count(LIBRARIES, n) = 1
       /\ \A i \in 2..Len(LIB_DIRS) :
            LIB_DIRS[i] \in OtherLibPaths \cup LibPathsFor("F2CLIBS_PREFIX")
                            \cup LibPathsFor("NCLLIBS_PREFIX")

C4_Witness ==
  /\ pc = "done"
  /\ DOMAIN environ = {"NCARG_ROOT", "CFLAGS", "CAIRO_PREFIX"}
  /\ LIB_DIRS[1] = <<"/", "opt", "/", "ncarg", "/", "lib">>
  /\ Len(LIB_DIRS) = 3

(* ------------------------------- C5 ----------------------------------- *)

Is64(un) == un.machine \in {"x86_64", "ia64"}

\* a is b, or b with one /usr/X11R6/lib64 entry taken out, or the reverse.
SameButLib64(a, b) ==
  \/ a = b
  \/ \E i \in 1..Len(b) : b[i] = X11R6Lib64 /\ a = RemoveAt(b, i)
  \/ \E i \in 1..Len(a) : a[i] = X11R6Lib64 /\ b = RemoveAt(a, i)

\* C5: right after set_ncl_libs_and_paths, for every other machine
\* identifier, the library paths of a run that differs in nothing else are
\* the same list up to one /usr/X11R6/lib64 entry, which only x86_64 and
\* ia64 have, and the library names are the same list.
C5_ArchitectureOnlyLib64 ==
  pc = "incs" =>
    \A un \in Unames :
      LET paths == NclPaths(environ, fs, un, ncarg_lib, F2CLIBS_PREFIX,
                            NCLLIBS_PREFIX)
      IN /\ SameButLib64(LIB_DIRS, paths)
         /\ (Is64(un) <=> Is64(uname)) => LIB_DIRS = paths
         /\ (~Is64(uname) /\ Is64(un)) => Len(LIB_DIRS) <= Len(paths)
         /\ LIBRARIES = NclLibs(platform, F2CLIBS)

C5_Witness ==
  /\ pc = "incs"
  /\ uname.machine = "x86_64"
  /\ X11R6Lib64 \in fs
  /\ Count(LIB_DIRS, X11R6Lib64) = 1
  /\ NclPaths(environ, fs, [machine |-> "i686", release |-> "3.2.0"],
              ncarg_lib, F2CLIBS_PREFIX, NCLLIBS_PREFIX) # LIB_DIRS

(* ------------------------------- C6 ----------------------------------- *)

\* The lines of a text, without their newlines.
RECURSIVE LinesFrom(_, _)
LinesFrom(text, line) ==
  IF text = <<>> THEN (IF line = <<>> THEN <<>> ELSE <<line>>)
  ELSE IF Head(text) = "\n" THEN <<line>> \o LinesFrom(Tail(text), <<>>)
  ELSE LinesFrom(Tail(text), Append(line, Head(text)))

SyntaxError == <<"SyntaxError">>

\* What Python makes of a backslash followed by c in a string literal.
Unescape(c) ==
  IF c \in {"'", "\\"} THEN <<c>> ELSE IF c = "n" THEN <<"\n">> ELSE <<"\\", c>>

\* The value of the single-quoted literal whose opening quote precedes s and
\* that must end the line.
RECURSIVE Literal(_, _)
Literal(s, value) ==
  IF s = <<>> THEN SyntaxError
  ELSE IF Head(s) = "'" THEN (IF Tail(s) = <<>> THEN value ELSE SyntaxError)
  ELSE IF Head(s) = "\\"
       THEN (IF Len(s) >= 2
             THEN Literal(Tail(Tail(s)), value \o Unescape(s[2]))
             ELSE SyntaxError)
       ELSE Literal(Tail(s), Append(value, Head(s)))

\* The field that the assignment "key'...'" of the version file gives on
\* import.
ReadField(text, key) ==
  LET lines == LinesFrom(text, <<>>)
      found == {i \in 1..Len(lines) :
                  Len(lines[i]) >= 2 /\ lines[i][1] = key /\ lines[i][2] = "'"}
  IN IF found = {} THEN SyntaxError
     ELSE LET l == lines[CHOOSE i \in found : \A j \in found : i >= j]
          IN Literal(SubSeq(l, 3, Len(l)), <<>>)

\* C6: once written, the version file's fields read back as the package
\* version, numpy's version and the interpreter's version string, each
\* exactly as given.
C6_FieldsRoundTrip ==
  vfile # <<>> =>
    /\ ReadField(vfile, "version = ") = pyngl_version
    /\ ReadField(vfile, "array_module_version = ") = numpy_version
    /\ ReadField(vfile, "python_version = ") = sys_version

(* ------------------------------- C7 ----------------------------------- *)

\* Where the file of a manifest entry is staged: the example entries are
\* paths from the working directory, the others paths from src/ngl.
StagedPath(entry) ==
  IF Head(entry) = "src" THEN InWork(entry)
  ELSE InWork(Join(<<"src", "/", "ngl">>, entry))

\* C7: every entry of DATA_FILES is the entry of a file that was there when
\* the entry was appended and that was copied to the staging directory.
C7_EntriesWereCopied ==
  \A i \in 1..Len(DATA_FILES) : StagedPath(DATA_FILES[i]) \in staged

(* ------------------------------- C8 ----------------------------------- *)

\* The file systems a second run may find.
OtherFileSystems == {F \cup X : F \in SUBSET OptionalFiles, X \in SUBSET XDirs}

X11Dirs == {X11R6Lib, OptX11Lib, X11R6Lib64}

Contributes(v, sub) ==
  IF v \in DOMAIN environ THEN <<Under(environ[v], sub)>> ELSE <<>>

NonEmptyValue(v) ==
  IF v \in DOMAIN environ /\ environ[v] # <<>> THEN <<environ[v]>> ELSE <<>>

PrefixLibPaths ==
  Contributes("CAIRO_PREFIX", <<"lib">>)
  \o Contributes("FREETYPE_PREFIX", <<"lib">>)
  \o Contributes("PNG_PREFIX", <<"lib">>)
  \o Contributes("ZLIB_PREFIX", <<"lib">>)
  \o NonEmptyValue("F2CLIBS_PREFIX")
  \o NonEmptyValue("NCLLIBS_PREFIX")

PrefixIncPaths ==
  Contributes("PNG_PREFIX", <<"include">>)
  \o Contributes("ZLIB_PREFIX", <<"include">>)
  \o Contributes("CAIRO_PREFIX", <<"include">>)
  \o Contributes("FREETYPE_PREFIX", <<"include">>)
  \o Contributes("FREETYPE_PREFIX", <<"include", "/", "freetype2">>)

\* C9: the library paths are the library directory, then X11 directories,
\* then one <prefix>/lib for each of CAIRO_PREFIX, FREETYPE_PREFIX,
\* PNG_PREFIX and ZLIB_PREFIX that is set and none for one that is unset, in
\* this order, then F2CLIBS_PREFIX and NCLLIBS_PREFIX; the include paths are
\* NumPy's and NCARG_ROOT's, then <prefix>/include for each prefix that is
\* set (FREETYPE_PREFIX adding include and include/freetype2 together) and
\* none for one that is unset, in a fixed order, then src/gsun.
C9_PrefixesOnlyWhenSet ==
  pc = "cflags" =>
    LET base == Len(LIB_DIRS) - Len(PrefixLibPaths) IN
      /\ base >= 1
      /\ LIB_DIRS = SubSeq(LIB_DIRS, 1, base) \o PrefixLibPaths
      /\ LIB_DIRS[1] = ncarg_lib
      /\ \A i \in 2..base : LIB_DIRS[i] \in X11Dirs
      /\ INC_DIRS = <<numpy_inc, Under(ncarg_root, <<"include">>)>>
                    \o PrefixIncPaths \o << <<"src", "/", "gsun">> >>

C9_Witness ==
  /\ pc = "cflags"
  /\ DOMAIN environ \cap {"CAIRO_PREFIX", "FREETYPE_PREFIX", "PNG_PREFIX",
                          "ZLIB_PREFIX", "F2CLIBS_PREFIX", "NCLLIBS_PREFIX"}
       = {"FREETYPE_PREFIX", "ZLIB_PREFIX", "NCLLIBS_PREFIX"}
  /\ environ["FREETYPE_PREFIX"] = <<"/", "ft">>
  /\ Len(LIB_DIRS) = 5
  /\ Len(INC_DIRS) = 6

(* ------------------------------- C10 ---------------------------------- *)

FailsEarly == ~numpy_ok \/ ~RootSet

Writes == Count(effects, <<"write", pyngl_vfile>>)

Built == Count(effects, <<"setup">>)

\* The version file is written before the build is invoked.
WrittenBeforeBuild ==
  \A i, j \in 1..Len(effects) :
    (effects[i] = <<"write", pyngl_vfile>> /\ effects[j] = <<"setup">>) => i < j

\* A run in which NumPy or NCARG_ROOT is missing ends with status 1 and has
\* performed no operation on the file system or the build; the NumPy
\* diagnostic is the one printed when both are missing.
EarlyExitIsClean ==
  FailsEarly =>
    /\ effects = <<>>
    /\ staged = {}
    /\ pc \in {"import_numpy", "ncarg_root", "exited"}
    /\ Terminated => (exit_status = 1 /\ Len(printed) = 1)
    /\ (Terminated /\ ~numpy_ok) => printed = <<NumpyMessage>>

\* C10 as stated: an early failure is clean, and every other run, once it
\* has ended, has written the version file exactly once, before the build.
C10_WrittenOnceInEveryOtherRun ==
  /\ EarlyExitIsClean
  /\ (Terminated /\ ~FailsEarly) => (Writes = 1 /\ WrittenBeforeBuild)

\* C10, amended: an early failure is clean; no run writes the version file
\* more than once or after the build invocation; a run that invokes the
\* build has written it exactly once before; a run that ends without
\* having written it stopped on reading the file 'version'.
C10_WrittenOnceBeforeBuild ==
  /\ EarlyExitIsClean
  /\ Writes <= 1
  /\ WrittenBeforeBuild
  /\ Built >= 1 => Writes = 1
  /\ (Terminated /\ ~FailsEarly /\ Writes = 0) =>
       (pc = "crashed" /\ error \in {<<"IOError", "version">>,
                                     <<"IndexError", "version">>})

C10_Witness ==
  /\ pc = "exited"
  /\ ~numpy_ok
  /\ ~RootSet
  /\ {InWork(MANIFEST), InWork(pyngl_vfile)} \subseteq fs
  /\ printed = <<NumpyMessage>>

====
